---------------------------- MODULE Spec2Model ----------------------------
(***************************************************************************)
(* Model of recurse-invaders (src/src/main.cpp): the asset locator         *)
(* (invaders::fs), the initialization sequence of main, and the main loop  *)
(* (event drain, update step, render step).                                *)
(*                                                                         *)
(* Characters are their ASCII codes; 0 is the NUL terminator.  A char      *)
(* buffer of max_path_len bytes is modelled by the bytes written to it,    *)
(* the rest of the (zero-initialised) buffer being NUL: a buffer value of  *)
(* length max_path_len is a buffer that holds no terminator.               *)
(*                                                                         *)
(* elapsed_time is an f32 that only ever receives "+= frame_time"; it is   *)
(* modelled by the number n of those additions.  sinf of the n-th partial  *)
(* f32 sum is tabulated (SinfTable) in units of 10^-6, rounded down.       *)
(***************************************************************************)
EXTENDS Integers, Sequences, FiniteSets, TLC

VARIABLES
    pc,             \* position of main: the next step to run
    exit_status,    \* value returned by main; NotExited while it runs
    diag,           \* diagnostic printed by main (printf / SDL_Log)
    window,         \* window and renderer: "null" or "valid"
    ship_texture,   \* "null" or "valid"
    enemy_texture,  \* "null" or "valid"
    exe,            \* target of /proc/self/exe (environment)
    root,           \* invaders::fs::root
    assets,         \* invaders::fs::assets
    ship_path,      \* main's ship_path buffer
    enemy_path,     \* main's enemy_path buffer
    event,          \* main's SDL_Event
    move_left,
    move_right,
    player,         \* Player: position, size, speed
    enemy,          \* Enemy: position, size
    elapsed_time,   \* number of "elapsed_time += frame_time" executed
    last_left,      \* history: kind of the last left-arrow key event drained
    last_right,     \* history: kind of the last right-arrow key event drained
    run_len,        \* history: consecutive updates run with only move_left set
    run_x0          \* history: player x before the first update of that run

progvars == <<pc, exit_status, diag, window, ship_texture, enemy_texture, exe,
              root, assets, ship_path, enemy_path, event, move_left,
              move_right, player, enemy, elapsed_time>>
histvars == <<last_left, last_right, run_len, run_x0>>
vars == <<progvars, histvars>>

---------------------------------------------------------------------------
(* Program constants *)

screen_width == 640
max_path_len == 256
PlayerSpeed == 4
PlayerStartY == 400
EntitySize == 64

(* Bounds of the model *)

MaxFrames == 12       \* frames explored by Spec
MaxLongFrames == 290  \* frames explored by SpecLong
MaxRun == 6           \* longest left-only run the history follows
MaxSegs == 5          \* most path segments of an executable path (SpecFs)
LongSeg == 124        \* length of a long path segment (SpecFs)

\* exit_status while main has not returned.
NotExited == 0 - 1

Min(a, b) == IF a < b THEN a ELSE b
Max(a, b) == IF a > b THEN a ELSE b

---------------------------------------------------------------------------
(* invaders::fs *)

NUL == 0
Slash == 47
AssetsSuffix == <<47, 97, 115, 115, 101, 116, 115>>          \* "/assets"
ShipName == <<115, 104, 105, 112, 46, 112, 110, 103>>        \* "ship.png"
EnemyName == <<101, 110, 101, 109, 121, 46, 112, 110, 103>>  \* "enemy.png"

\* readlink(2): stores at most buffer_len bytes of the target and no NUL;
\* on failure (the empty target here) it stores nothing.
Readlink(target, buffer_len) ==
    SubSeq(target, 1, Min(Len(target), buffer_len))

\* The C string a buffer holds: the bytes before the first NUL.
CStr(buffer) ==
    LET nuls == {i \in 1..Len(buffer) : buffer[i] = NUL}
    IN  IF nuls = {} THEN buffer
        ELSE SubSeq(buffer, 1, (CHOOSE i \in nuls : \A j \in nuls : i <= j) - 1)

\* Mutant of StripStop: the loop condition written i >= 0.
RECURSIVE StripStopToZero(_, _, _)
StripStopToZero(buffer, i, removed) ==
    IF i >= 0
    THEN LET seps == {k \in 0..i : buffer[k + 1] = Slash}
         IN  IF seps = {} THEN 0
             ELSE LET k == CHOOSE s \in seps : \A t \in seps : t <= s
                  IN  IF removed + 1 = 3 THEN k
                      ELSE StripStopToZero(buffer, k - 1, removed + 1)
    ELSE i + 1

\* The loop of set_install_dir from index i (0-based) down to 1: the index
\* of the last byte it sets to NUL (i + 1 when it sets none).  The loop reads
\* each byte before it overwrites it and never looks back, so the bytes
\* that are no '/' leave removed as it is and are passed over in one step.
RECURSIVE StripStop(_, _, _)
StripStop(buffer, i, removed) ==
    IF i > 0
    THEN LET seps == {k \in 1..i : buffer[k + 1] = Slash}
         IN  IF seps = {} THEN 1
             ELSE LET k == CHOOSE s \in seps : \A t \in seps : t <= s
                  IN  IF removed + 1 = 3 THEN k
                      ELSE StripStop(buffer, k - 1, removed + 1)
    ELSE i + 1

\* The buffer after the loop has run from index i.
StripLoop(buffer, i, removed) ==
    LET stop == StripStop(buffer, i, removed)
    IN  [k \in 1..Len(buffer) |->
            IF stop <= k - 1 /\ k - 1 <= i THEN NUL ELSE buffer[k]]

\* set_install_dir.  When readlink fills the whole buffer there is no
\* terminator and strlen reads past the buffer: undefined behaviour.
\* overrun is the number of '/' bytes the loop meets beyond the buffer; with
\* three of them the loop breaks before it reaches the buffer.
set_install_dir(target, buffer_len, overrun) ==
    LET buffer == Readlink(target, buffer_len)
    IN  IF Len(buffer) < buffer_len
        THEN CStr(StripLoop(buffer, Len(buffer) - 1, 0))
        ELSE IF overrun >= 3 THEN buffer
             ELSE CStr(StripLoop(buffer, buffer_len - 1, overrun))

\* The outcomes of the out-of-bounds read for a given target.
Overruns(target) == IF Len(target) < max_path_len THEN {0} ELSE 0..3

\* snprintf(dst, n, ...): the first n - 1 bytes of the formatted text.
Snprintf(n, text) == SubSeq(text, 1, Min(Len(text), n - 1))

\* init: assets after snprintf(assets, max_path_len, "%s/assets", root).
fs_assets(r) == Snprintf(max_path_len, r \o AssetsSuffix)

\* asset: buffer after snprintf(buffer, buffer_len, "%s/%s", assets, name).
asset(a, asset_name, buffer_len) ==
    Snprintf(buffer_len, a \o <<Slash>> \o asset_name)

---------------------------------------------------------------------------
(* Executable paths *)

\* A path segment of n non-separator bytes ('x').
Seg(n) == [i \in 1..n |-> 120]

RECURSIVE PathOf(_)
PathOf(segs) ==
    IF segs = << >> THEN << >>
    ELSE <<Slash>> \o Seg(Head(segs)) \o PathOf(Tail(segs))

SegLens == {0, 1, 2, LongSeg}

\* Absolute paths of up to MaxSegs segments; the empty path stands for a
\* readlink that failed.
ExePaths == {PathOf(s) : s \in UNION {[1..k -> SegLens] : k \in 0..MaxSegs}}

\* <repo>/build/linux/recurse_invaders, the layout the build script makes.
InstalledExe == PathOf(<<2, 1, 1, 2>>)

---------------------------------------------------------------------------
(* The enemy oscillator *)

Micro == 10^6

\* floor(sinf(t_n) * 10^6) for n = 0, 1, ..., where t_0 = 0 and
\* t_(n+1) = t_n + frame_time in f32 arithmetic (frame_time = 1.f / 60.f).
SinfTable == <<
    0, 16665, 33327, 49979, 66617, 83236, 99833, 116402,
    132938, 149438, 165896, 182308, 198669, 214975, 231221, 247403,
    263517, 279557, 295520, 311400, 327194, 342897, 358505, 374014,
    389418, 404714, 419898, 434965, 449912, 464733, 479425, 493984,
    508406, 522687, 536822, 550809, 564642, 578319, 591834, 605186,
    618369, 631381, 644217, 656874, 669349, 681638, 693738, 705645,
    717356, 728867, 740176, 751280, 762175, 772858, 783326, 793577,
    803608, 813415, 822996, 832349, 841470, 850358, 859010, 867423,
    875595, 883523, 891207, 898643, 905829, 912763, 919444, 925870,
    932038, 937948, 943597, 948984, 954107, 958966, 963558, 967882,
    971937, 975723, 979237, 982480, 985449, 988145, 990566, 992712,
    994583, 996177, 997494, 998535, 999298, 999783, 999991, 999921,
    999573, 998948, 998045, 996865, 995408, 993674, 991664, 989379,
    986820, 983986, 980878, 977499, 973847, 969926, 965734, 961275,
    956549, 951556, 946300, 940781, 935000, 928960, 922661, 916107,
    909297, 902236, 894923, 887362, 879555, 871503, 863210, 854676,
    845905, 836899, 827661, 818192, 808497, 798577, 788435, 778074,
    767497, 756706, 745706, 734498, 723086, 711474, 699664, 687659,
    675464, 663081, 650513, 637765, 624840, 611742, 598473, 585038,
    571441, 557685, 543774, 529712, 515502, 501150, 486658, 472032,
    457274, 442389, 427381, 412255, 397014, 381662, 366205, 350646,
    334989, 319240, 303402, 287479, 271477, 255399, 239251, 223036,
    206759, 190424, 174037, 157601, 141122, 124603, 108050, 91466,
    74858, 58228, 41582, 24925, 8261, -8405, -25070, -41727,
    -58372, -75002, -91610, -108193, -124746, -141265, -157744, -174179,
    -190566, -206900, -223177, -239391, -255539, -271616, -287618, -303540,
    -319377, -335126, -350781, -366339, -381796, -397146, -412386, -427512,
    -442518, -457402, -472159, -486785, -501275, -515626, -529834, -543895,
    -557805, -571559, -585155, -598589, -611856, -624953, -637877, -650623,
    -663189, -675571, -687764, -699767, -711576, -723187, -734596, -745802,
    -756801, -767589, -778165, -788524, -798664, -808583, -818276, -827743,
    -836979, -845983, -854753, -863284, -871576, -879626, -887431, -894990,
    -902300, -909360, -916167, -922719, -929015, -935054, -940832, -946349,
    -951603, -956593, -961317, -965774, -969963, -973882, -977531, -980909,
    -984014, -986845, -989402, -991685, -993692, -995423, -996878, -998055,
    -998956, -999579, -999924, -999991, -999781, -999293, -998527, -997485,
    -996164, -994568, -992695, -990546, -988122, -985424, -982452, -979206,
    -975689, -971901, -967843, -963516, -958922, -954061, -948935, -943546,
    -937894, -931982, -925811, -919383, -912699, -905762, -898573, -891135,
    -883449, -875518, -867344, -858928, -850274, -841384, -832260, -822905
>>

sinf(n) == SinfTable[n + 1]

\* (sinf(elapsed_time) + 1) / 2 * enemy_max_x, in units of 10^-6 pixel.
Oscillate(n, enemy_max_x) == ((sinf(n) + Micro) * enemy_max_x) \div 2

\* Conversion of a float (given in units of 10^-6) to i32: truncation
\* toward zero.
F32ToI32(m) == IF m >= 0 THEN m \div Micro ELSE -((-m) \div Micro)

\* Rounding to the nearest integer, half away from zero.
Round(m) ==
    IF m >= 0 THEN (m + Micro \div 2) \div Micro
    ELSE -((-m + Micro \div 2) \div Micro)

---------------------------------------------------------------------------
(* Update step *)

\* Mutant of MovePlayer: the second if written as else-if.
MovePlayerElseIf(x, speed, left, right) ==
    IF left THEN x - speed
    ELSE IF right THEN x + speed ELSE x

\* Lines 170-171: the two independent ifs on the movement flags.
MovePlayer(x, speed, left, right) ==
    LET x1 == IF left THEN x - speed ELSE x
    IN  IF right THEN x1 + speed ELSE x1

\* Mutant of EnemyX: the product rounded to the nearest integer.
EnemyXRounded(n, size) ==
    LET enemy_max_x == screen_width - size.x
    IN  Round(Oscillate(n, enemy_max_x))

\* Line 173-175: enemy x from the oscillator, converted to i32.
EnemyX(n, size) ==
    LET enemy_max_x == screen_width - size.x
    IN  F32ToI32(Oscillate(n, enemy_max_x))

\* Mutant of clamp_position: the std::min line left out.
clamp_position_no_min(position, size) ==
    [position EXCEPT !.x = Max(position.x, 0)]

\* Mutant of clamp_position: the std::max line left out.
clamp_position_no_max(position, size) ==
    [position EXCEPT !.x = Min(position.x, screen_width - size.x)]

\* The clamp_position lambda.
clamp_position(position, size) ==
    LET x1 == Max(position.x, 0)
    IN  [position EXCEPT !.x = Min(x1, screen_width - size.x)]

---------------------------------------------------------------------------
(* Events *)

Keys == {"SDLK_LEFT", "SDLK_RIGHT", "SDLK_OTHER"}
NoEvent == [type |-> "NONE", sym |-> "-"]
QuitEvent == [type |-> "SDL_QUIT", sym |-> "-"]
OtherEvent == [type |-> "SDL_OTHER", sym |-> "-"]
KeyEvent(type, sym) == [type |-> type, sym |-> sym]

InitPcs == {"SDL_Init", "CreateWindowAndRenderer", "fs_init", "load_ship",
            "load_enemy"}
RunPcs == {"poll", "update", "render"}

---------------------------------------------------------------------------
(* Initial state: the globals as constructed, main about to start *)

Start(paths) ==
    /\ pc = "SDL_Init"
    /\ exit_status = NotExited
    /\ diag = "none"
    /\ window = "null"
    /\ ship_texture = "null"
    /\ enemy_texture = "null"
    /\ exe \in paths
    /\ root = << >>
    /\ assets = << >>
    /\ ship_path = << >>
    /\ enemy_path = << >>
    /\ event = NoEvent
    /\ move_left = FALSE
    /\ move_right = FALSE
    /\ player = [position |-> [x |-> 0, y |-> PlayerStartY],
                 size |-> [x |-> EntitySize, y |-> EntitySize],
                 speed |-> PlayerSpeed]
    /\ enemy = [position |-> [x |-> 0, y |-> 0],
                size |-> [x |-> EntitySize, y |-> EntitySize]]
    /\ elapsed_time = 0
    /\ last_left = "NONE"
    /\ last_right = "NONE"
    /\ run_len = 0
    /\ run_x0 = 0

Init == Start({InstalledExe})
InitFs == Start(ExePaths)

---------------------------------------------------------------------------
(* Initialization of main *)

Fail(message) ==
    /\ diag' = message
    /\ exit_status' = 1
    /\ pc' = "done"

\* Lines 95-98.
SDLInit ==
    /\ pc = "SDL_Init"
    /\ \/ /\ pc' = "CreateWindowAndRenderer"
          /\ UNCHANGED <<diag, exit_status>>
       \/ Fail("SDL could not initialize")
    /\ UNCHANGED <<window, ship_texture, enemy_texture, exe, root, assets,
                   ship_path, enemy_path, event, move_left, move_right,
                   player, enemy, elapsed_time>>

\* Lines 100-111.
CreateWindowAndRenderer ==
    /\ pc = "CreateWindowAndRenderer"
    /\ \/ /\ window' = "valid"
          /\ pc' = "fs_init"
          /\ UNCHANGED <<diag, exit_status>>
       \/ /\ Fail("SDL_CreateWindowAndRenderer() failed")
          /\ UNCHANGED window
    /\ UNCHANGED <<ship_texture, enemy_texture, exe, root, assets,
                   ship_path, enemy_path, event, move_left, move_right,
                   player, enemy, elapsed_time>>

\* Line 114: invaders::fs::init().
FsInit ==
    /\ pc = "fs_init"
    /\ \E overrun \in Overruns(exe) :
          root' = set_install_dir(exe, max_path_len, overrun)
    /\ assets' = fs_assets(root')
    /\ pc' = "load_ship"
    /\ UNCHANGED <<exit_status, diag, window, ship_texture, enemy_texture,
                   exe, ship_path, enemy_path, event, move_left, move_right,
                   player, enemy, elapsed_time>>

\* Lines 116-124.
LoadShip ==
    /\ pc = "load_ship"
    /\ ship_path' = asset(assets, ShipName, max_path_len)
    /\ \/ /\ ship_texture' = "valid"
          /\ pc' = "load_enemy"
          /\ UNCHANGED <<diag, exit_status>>
       \/ /\ Fail("Couldn't load ship")
          /\ UNCHANGED ship_texture
    /\ UNCHANGED <<window, enemy_texture, exe, root, assets, enemy_path,
                   event, move_left, move_right, player, enemy,
                   elapsed_time>>

\* Mutant of LoadEnemy: the return after the diagnostic left out.
LoadEnemyNoReturn ==
    /\ pc = "load_enemy"
    /\ enemy_path' = asset(assets, EnemyName, max_path_len)
    /\ \/ /\ enemy_texture' = "valid"
          /\ UNCHANGED diag
       \/ /\ diag' = "Couldn't load enemy"
          /\ UNCHANGED enemy_texture
    /\ pc' = "poll"
    /\ UNCHANGED <<exit_status, window, ship_texture, exe, root, assets,
                   ship_path, event, move_left, move_right, player, enemy,
                   elapsed_time>>

\* Lines 126-134; on success main goes on to the loop (lines 137-141).
LoadEnemy ==
    /\ pc = "load_enemy"
    /\ enemy_path' = asset(assets, EnemyName, max_path_len)
    /\ \/ /\ enemy_texture' = "valid"
          /\ pc' = "poll"
          /\ UNCHANGED <<diag, exit_status>>
       \/ /\ Fail("Couldn't load enemy")
          /\ UNCHANGED enemy_texture
    /\ UNCHANGED <<window, ship_texture, exe, root, assets, ship_path,
                   event, move_left, move_right, player, enemy,
                   elapsed_time>>

---------------------------------------------------------------------------
(* The main loop: event drain (lines 143-167) *)

LoopUnchanged ==
    UNCHANGED <<diag, window, ship_texture, enemy_texture, exe, root,
                assets, ship_path, enemy_path>>

\* Mutant of PollQuit: break out of the drain instead of return 0.
PollQuitBreak ==
    /\ pc = "poll"
    /\ event' = QuitEvent
    /\ pc' = "update"
    /\ LoopUnchanged
    /\ UNCHANGED <<exit_status, move_left, move_right, player, enemy,
                   elapsed_time>>

\* Lines 144-146: SDL_QUIT returns 0 from main.
PollQuit ==
    /\ pc = "poll"
    /\ event' = QuitEvent
    /\ exit_status' = 0
    /\ pc' = "done"
    /\ LoopUnchanged
    /\ UNCHANGED <<move_left, move_right, player, enemy, elapsed_time>>

\* Lines 147-155: the flags after a key-down of sym.
OnKeyDown(sym, left, right) ==
    IF sym = "SDLK_LEFT" THEN <<TRUE, right>>
    ELSE IF sym = "SDLK_RIGHT" THEN <<left, TRUE>>
    ELSE <<left, right>>

\* Mutant of OnKeyUp: the second test left out, a plain else.
OnKeyUpElse(sym, left, right) ==
    IF sym = "SDLK_LEFT" THEN <<FALSE, right>>
    ELSE <<left, FALSE>>

\* Lines 156-165: the flags after a key-up of sym.
OnKeyUp(sym, left, right) ==
    IF sym = "SDLK_LEFT" THEN <<FALSE, right>>
    ELSE IF sym = "SDLK_RIGHT" THEN <<left, FALSE>>
    ELSE <<left, right>>

PollKeyDown ==
    /\ pc = "poll"
    /\ \E sym \in Keys :
          /\ event' = KeyEvent("SDL_KEYDOWN", sym)
          /\ move_left' = OnKeyDown(sym, move_left, move_right)[1]
          /\ move_right' = OnKeyDown(sym, move_left, move_right)[2]
    /\ LoopUnchanged
    /\ UNCHANGED <<pc, exit_status, player, enemy, elapsed_time>>

PollKeyUp ==
    /\ pc = "poll"
    /\ \E sym \in Keys :
          /\ event' = KeyEvent("SDL_KEYUP", sym)
          /\ move_left' = OnKeyUp(sym, move_left, move_right)[1]
          /\ move_right' = OnKeyUp(sym, move_left, move_right)[2]
    /\ LoopUnchanged
    /\ UNCHANGED <<pc, exit_status, player, enemy, elapsed_time>>

\* An event of any other type falls through every branch.
PollOther ==
    /\ pc = "poll"
    /\ event' = OtherEvent
    /\ LoopUnchanged
    /\ UNCHANGED <<pc, exit_status, move_left, move_right, player, enemy,
                   elapsed_time>>

\* SDL_PollEvent returns 0: the queue is drained, event is left as it was.
PollEmpty ==
    /\ pc = "poll"
    /\ pc' = "update"
    /\ LoopUnchanged
    /\ UNCHANGED <<exit_status, event, move_left, move_right, player, enemy,
                   elapsed_time>>

---------------------------------------------------------------------------
(* The main loop: update (lines 170-182) and render (lines 185-203) *)

UpdatedPlayer ==
    LET x == MovePlayer(player.position.x, player.speed, move_left,
                        move_right)
        moved == [player.position EXCEPT !.x = x]
    IN  [player EXCEPT !.position = clamp_position(moved, player.size)]

\* Mutant of UpdatedEnemy: elapsed_time incremented before it is used.
UpdatedEnemyNextPhase ==
    LET x == EnemyX(elapsed_time + 1, enemy.size)
        moved == [enemy.position EXCEPT !.x = x]
    IN  [enemy EXCEPT !.position = clamp_position(moved, enemy.size)]

UpdatedEnemy ==
    LET x == EnemyX(elapsed_time, enemy.size)
        moved == [enemy.position EXCEPT !.x = x]
    IN  [enemy EXCEPT !.position = clamp_position(moved, enemy.size)]

Update ==
    /\ pc = "update"
    /\ player' = UpdatedPlayer
    /\ enemy' = UpdatedEnemy
    /\ pc' = "render"
    /\ LoopUnchanged
    /\ UNCHANGED <<exit_status, event, move_left, move_right, elapsed_time>>

\* Draws both entities where they are, then elapsed_time += frame_time.
Render(frames) ==
    /\ pc = "render"
    /\ elapsed_time < frames
    /\ elapsed_time' = elapsed_time + 1
    /\ pc' = "poll"
    /\ LoopUnchanged
    /\ UNCHANGED <<exit_status, event, move_left, move_right, player, enemy>>

---------------------------------------------------------------------------
(* History *)

\* The kind of the last left / right arrow key event drained.
HistKeys ==
    /\ last_left' = IF event'.sym = "SDLK_LEFT" THEN event'.type
                    ELSE last_left
    /\ last_right' = IF event'.sym = "SDLK_RIGHT" THEN event'.type
                     ELSE last_right
    /\ UNCHANGED <<run_len, run_x0>>

\* The current run of consecutive updates made with only move_left set,
\* followed for MaxRun updates and then started afresh.
HistRun ==
    LET left_only == move_left /\ ~move_right
        fresh == run_len = 0 \/ run_len >= MaxRun
    IN  /\ run_len' = IF ~left_only THEN 0
                      ELSE IF fresh THEN 1 ELSE run_len + 1
        /\ run_x0' = IF ~left_only THEN 0
                     ELSE IF fresh THEN player.position.x ELSE run_x0
        /\ UNCHANGED <<last_left, last_right>>

---------------------------------------------------------------------------
(* Specifications *)

\* The whole program, installed where the build script puts it.
Next ==
    \/ SDLInit /\ UNCHANGED histvars
    \/ CreateWindowAndRenderer /\ UNCHANGED histvars
    \/ FsInit /\ UNCHANGED histvars
    \/ LoadShip /\ UNCHANGED histvars
    \/ LoadEnemy /\ UNCHANGED histvars
    \/ PollQuit /\ UNCHANGED histvars
    \/ PollKeyDown /\ HistKeys
    \/ PollKeyUp /\ HistKeys
    \/ PollOther /\ UNCHANGED histvars
    \/ PollEmpty /\ UNCHANGED histvars
    \/ Update /\ HistRun
    \/ Render(MaxFrames) /\ UNCHANGED histvars

Spec == Init /\ [][Next]_vars

\* The whole program over enough frames for the player to cross the screen;
\* the history is not followed.
NextLong ==
    \/ SDLInit /\ UNCHANGED histvars
    \/ CreateWindowAndRenderer /\ UNCHANGED histvars
    \/ FsInit /\ UNCHANGED histvars
    \/ LoadShip /\ UNCHANGED histvars
    \/ LoadEnemy /\ UNCHANGED histvars
    \/ PollQuit /\ UNCHANGED histvars
    \/ PollKeyDown /\ UNCHANGED histvars
    \/ PollKeyUp /\ UNCHANGED histvars
    \/ PollOther /\ UNCHANGED histvars
    \/ PollEmpty /\ UNCHANGED histvars
    \/ Update /\ UNCHANGED histvars
    \/ Render(MaxLongFrames) /\ UNCHANGED histvars

SpecLong == Init /\ [][NextLong]_vars

\* The initialization of main for every executable path of ExePaths.
NextFs ==
    \/ SDLInit /\ UNCHANGED histvars
    \/ CreateWindowAndRenderer /\ UNCHANGED histvars
    \/ FsInit /\ UNCHANGED histvars
    \/ LoadShip /\ UNCHANGED histvars
    \/ LoadEnemy /\ UNCHANGED histvars

SpecFs == InitFs /\ [][NextFs]_vars

---------------------------------------------------------------------------
(* Claims *)

PlayerMaxX == screen_width - player.size.x
EnemyMaxX == screen_width - enemy.size.x
Origin == [x |-> 0, y |-> PlayerStartY]

\* C1: in every frame, after the clamp step and when the frame is rendered,
\* 0 <= player.position.x <= 576 and 0 <= enemy.position.x <= 576.
C1_ClampedWhenRendered ==
    pc = "render" =>
        /\ PlayerMaxX = 576 /\ EnemyMaxX = 576
        /\ 0 <= player.position.x /\ player.position.x <= PlayerMaxX
        /\ 0 <= enemy.position.x /\ enemy.position.x <= EnemyMaxX

\* C1 witness: a rendered frame with the player held against the right edge
\* while still moving right and the enemy at the left edge.
C1_Witness ==
    /\ pc = "render"
    /\ player.position.x = 576 /\ move_right /\ ~move_left
    /\ enemy.position.x = 0

\* C2: after N consecutive updates made with move_left set and move_right
\* clear, starting from player x = x0, player x is max(x0 - N * 4, 0).
C2_LeftRun ==
    run_len > 0 =>
        /\ player.speed = 4
        /\ player.position.x = Max(run_x0 - run_len * 4, 0)

\* C2 witness: five left-only updates from x0 = 8 end clamped at 0.
C2_Witness ==
    /\ pc = "render"
    /\ run_len = 5 /\ run_x0 = 8
    /\ player.position.x = 0

\* C3: while move_left and move_right are both set, no step changes the
\* player position: an update made with both flags set leaves player x as it
\* was, at the boundaries 0 and 576 too.
C3_BothHeld ==
    [][(move_left /\ move_right /\ move_left' /\ move_right')
          => player'.position = player.position]_vars

\* C3 witness: a frame updated with both flags set at the right boundary.
C3_Witness ==
    /\ pc = "render"
    /\ move_left /\ move_right
    /\ player.position.x = 576

QuitStep ==
    /\ pc' = "done" /\ exit_status' = 0
    /\ UNCHANGED <<move_left, move_right, player, enemy, elapsed_time>>

\* C4: polling SDL_QUIT in Running terminates at once with exit status 0,
\* touching neither the flags nor the scene; Running is left in no other way,
\* and nothing runs after termination.
C4_QuitTerminates ==
    /\ [][(pc = "poll" /\ event'.type = "SDL_QUIT") => QuitStep]_vars
    /\ [][(pc \in RunPcs /\ pc' \notin RunPcs)
             => (pc = "poll" /\ event'.type = "SDL_QUIT" /\ QuitStep)]_vars
    /\ [][pc # "done"]_vars

\* C4 witness: terminated by SDL_QUIT after some frames, both flags set.
C4_Witness ==
    /\ pc = "done" /\ exit_status = 0
    /\ event = QuitEvent
    /\ move_left /\ move_right
    /\ elapsed_time > 1

InitStepOn ==
    /\ pc' \in InitPcs \cup {"poll"}
    /\ diag' = "none" /\ exit_status' = NotExited

InitStepFailed ==
    /\ pc' = "done"
    /\ diag' # "none" /\ exit_status' = 1

\* C5: a failed initialization step leads directly to termination with exit
\* status 1 and the loop is never entered; exit status 1 comes only from
\* initialization and exit status 0 only from the running loop.
C5_InitFailure ==
    /\ [](diag # "none" =>
            /\ pc = "done" /\ exit_status = 1
            /\ elapsed_time = 0 /\ event = NoEvent)
    /\ [](exit_status = 1 => diag # "none")
    /\ [](exit_status = 0 =>
            /\ diag = "none" /\ event = QuitEvent
            /\ window = "valid" /\ ship_texture = "valid"
            /\ enemy_texture = "valid")
    /\ [](pc \in RunPcs =>
            /\ exit_status = NotExited
            /\ window = "valid" /\ ship_texture = "valid"
            /\ enemy_texture = "valid")
    /\ [][(pc \in InitPcs) => (InitStepOn \/ InitStepFailed)]_vars
    /\ [][(pc \in RunPcs /\ pc' \notin RunPcs)
             => (pc' = "done" /\ exit_status' = 0)]_vars

\* C5 witness: the enemy texture failed to load after the ship's loaded.
C5_Witness ==
    /\ pc = "done" /\ exit_status = 1
    /\ diag = "Couldn't load enemy"
    /\ ship_texture = "valid" /\ enemy_texture = "null"

FirstUpdateDone == pc = "render" /\ elapsed_time = 0 /\ event = NoEvent

\* C6 as stated: with no input, after the first update the player is at
\* (0,400) and enemy x is the oscillator at phase 1/60 converted to i32.
C6_FirstUpdatePhaseOne ==
    FirstUpdateDone =>
        /\ player.position = Origin
        /\ enemy.position.x = Oscillate(1, EnemyMaxX) \div Micro

\* C6 amended: with no input, after the first update the player is at
\* (0,400) and enemy x is 288, the oscillator at phase 0; phase 1/60, which
\* gives 292, is the phase of the second update.
C6_FirstUpdatePhaseZero ==
    /\ FirstUpdateDone =>
          /\ player.position = Origin
          /\ enemy.position.x = 288
          /\ enemy.position.y = 0
    /\ (pc = "render" /\ elapsed_time = 1 /\ event = NoEvent) =>
          /\ player.position = Origin
          /\ enemy.position.x = 292

\* C6 witness: the first frame, updated and about to be rendered, no event
\* ever polled.
C6_Witness == FirstUpdateDone /\ enemy.position.x = 288

IsArrowKey(e) ==
    /\ e.type \in {"SDL_KEYDOWN", "SDL_KEYUP"}
    /\ e.sym \in {"SDLK_LEFT", "SDLK_RIGHT"}

\* C7: move_left (move_right) is set exactly when the last left-arrow
\* (right-arrow) key event drained was a key-down; a step that drains no
\* arrow-key event (another event, another key, the end of the drain, update
\* and render) leaves both flags as they were.
C7_FlagsFollowKeys ==
    /\ [](/\ move_left = (last_left = "SDL_KEYDOWN")
          /\ move_right = (last_right = "SDL_KEYDOWN"))
    /\ [][(pc # "poll" \/ pc' = "update" \/ ~IsArrowKey(event'))
             => UNCHANGED <<move_left, move_right>>]_vars

\* C7 witness: an update step in a later frame with left down, right released
\* and an unrelated event drained last.
C7_Witness ==
    /\ pc = "update" /\ elapsed_time > 0
    /\ move_left /\ ~move_right
    /\ last_left = "SDL_KEYDOWN" /\ last_right = "SDL_KEYUP"
    /\ event = OtherEvent

\* C8 as stated: in the frame updated with elapsed_time = t, enemy x is
\* ((sin(t)+1)/2) * (screen_width - enemy.size.x) rounded to the nearest
\* integer.
C8_EnemyRounded ==
    pc = "render" =>
        enemy.position.x = Round(Oscillate(elapsed_time, EnemyMaxX))

\* C8 amended: in the frame updated with elapsed_time = t, enemy x is
\* ((sin(t)+1)/2) * (screen_width - enemy.size.x) truncated to an integer,
\* whatever the key events and the player state; until the next update it
\* keeps the value of the previous frame.
C8_EnemyTruncated ==
    /\ pc = "render" =>
          enemy.position.x = Oscillate(elapsed_time, EnemyMaxX) \div Micro
    /\ (pc \in {"poll", "update"} /\ elapsed_time > 0) =>
          enemy.position.x = Oscillate(elapsed_time - 1, EnemyMaxX) \div Micro

\* C8 witness: the frame at the crest of the oscillation (575.99 pixels),
\* with the player moved by key events.
C8_Witness ==
    /\ pc = "render" /\ elapsed_time = 94
    /\ enemy.position.x = 575
    /\ player.position.x > 0 /\ move_left

\* The separators of a path at index > 0 (1-based positions).
Separators(path) == {k \in 2..Len(path) : path[k] = Slash}

\* The path without its trailing three segments and their separators.
Base(path) ==
    LET seps == Separators(path)
        third == CHOOSE k \in seps : Cardinality({j \in seps : j >= k}) = 3
    IN  SubSeq(path, 1, third - 1)

FsInitDone == assets # << >>

\* C9: for an executable path with at least three separators at index > 0,
\* root is the path without its trailing three segments, assets is root
\* followed by "/assets", and the asset paths are assets followed by "/" and
\* the asset name, when the results fit in max_path_len.
C9_InstallDir ==
    (Cardinality(Separators(exe)) >= 3 /\ FsInitDone) =>
        LET base == Base(exe)
            dir == base \o AssetsSuffix
            ship == dir \o <<Slash>> \o ShipName
            enemy_png == dir \o <<Slash>> \o EnemyName
        IN  /\ root = base
            /\ Len(dir) < max_path_len => assets = dir
            /\ (ship_path # << >> /\ Len(ship) < max_path_len)
                  => ship_path = ship
            /\ (enemy_path # << >> /\ Len(enemy_png) < max_path_len)
                  => enemy_path = enemy_png

\* The separators of a path, the leading one included.
AllSeparators(path) == {k \in 1..Len(path) : path[k] = Slash}

FewSeparators(path) == Cardinality(AllSeparators(path)) < 3

HasSegment(path) == \E k \in 1..Len(path) : path[k] # Slash

\* C10 as stated: with fewer than 3 separators in the executable path the
\* base directory is too long: it retains a part of a path segment.
C10_TooLong ==
    (FewSeparators(exe) /\ HasSegment(exe) /\ FsInitDone) =>
        \E k \in 1..Len(root) : root[k] # Slash

\* C10 amended: with fewer than 3 separators in an executable path shorter
\* than max_path_len, the loop sets every byte at index >= 1 to NUL: the base
\* directory is the first byte of the path alone, and assets follows from it.
C10_FirstByteOnly ==
    (FewSeparators(exe) /\ Len(exe) < max_path_len /\ FsInitDone) =>
        /\ root = SubSeq(exe, 1, Min(Len(exe), 1))
        /\ assets = root \o AssetsSuffix

\* C10 witness: "/x/xx" leaves "/" and "//assets".
C10_Witness ==
    /\ FsInitDone
    /\ exe = PathOf(<<1, 2>>)
    /\ root = <<Slash>>
    /\ ship_path # << >>

===========================================================================
